---- MODULE Spec2Model ----
(***************************************************************************)
(* The calculator of src/src/App.tsx as a state machine.                   *)
(*                                                                         *)
(* Strings are sequences of one-character strings, so that length,         *)
(* concatenation, slicing and the regular expressions of the source are    *)
(* computed character by character.  A JavaScript number is a record       *)
(* [nan, neg, m, e] standing for (-1)^neg * m * 10^e, with m a sequence of *)
(* decimal digits (most significant first, no leading zero, no trailing    *)
(* zero unless m = <<0>>): results carry ten fractional digits, which does *)
(* not fit the integers of the model checker.                              *)
(***************************************************************************)
EXTENDS Integers, Sequences, FiniteSets, TLC

(***************************************************************************)
(* Characters and strings                                                  *)
(***************************************************************************)
DigitChars == <<"0", "1", "2", "3", "4", "5", "6", "7", "8", "9">>

IsDigit(c) == \E i \in 1..10 : DigitChars[i] = c

DigitVal(c) == (CHOOSE i \in 1..10 : DigitChars[i] = c) - 1

DigitChr(d) == DigitChars[d + 1]

\* String.prototype.includes for a single character
includes(s, c) == \E i \in 1..Len(s) : s[i] = c

\* index of the first occurrence of c in s, 0 when there is none
indexOf(s, c) ==
  IF includes(s, c) THEN CHOOSE i \in 1..Len(s) : s[i] = c /\ \A j \in 1..(i - 1) : s[j] # c
  ELSE 0

\* s.replace(c, ''): removes the FIRST occurrence of c only
replaceFirst(s, c) ==
  LET i == indexOf(s, c)
  IN  IF i = 0 THEN s ELSE SubSeq(s, 1, i - 1) \o SubSeq(s, i + 1, Len(s))

\* s.slice(0, -1)
sliceLast(s) == SubSeq(s, 1, Len(s) - 1)

Zeros(n) == IF n <= 0 THEN <<>> ELSE SubSeq([i \in 1..n |-> 0], 1, n)

ZeroChars(n) == IF n <= 0 THEN <<>> ELSE SubSeq([i \in 1..n |-> "0"], 1, n)

ToChars(ds) == SubSeq([i \in 1..Len(ds) |-> DigitChr(ds[i])], 1, Len(ds))

ToDigits(s) == SubSeq([i \in 1..Len(s) |-> DigitVal(s[i])], 1, Len(s))

AllDigits(s) == \A i \in 1..Len(s) : IsDigit(s[i])

Max(a, b) == IF a >= b THEN a ELSE b

Min(a, b) == IF a <= b THEN a ELSE b

(***************************************************************************)
(* Natural numbers of any size, as digit sequences.  The operators are     *)
(* written without recursion over the digits where that is possible        *)
(* (carries by look-ahead, products by columns), so that evaluating them   *)
(* stays shallow.                                                          *)
(***************************************************************************)
\* a function over 1..n as a sequence, its elements evaluated
AsSeq(f) == SubSeq(f, 1, Len(f))

\* F(x), with x evaluated before F is entered.  (The model checker evaluates the
\* argument of an operator where the operator first uses it, nested inside the
\* evaluation of the operator; with this the stages of a computation are evaluated
\* one after the other, as the source evaluates them.)
Call(F(_), x) == CHOOSE r \in {F(v) : v \in {x}} : TRUE

Call2(F(_, _), x, y) == CHOOSE r \in {F(v, w) : v \in {x}, w \in {y}} : TRUE

NatIsZero(n) == \A i \in 1..Len(n) : n[i] = 0

\* n without its leading zeros
Strip(n) ==
  IF NatIsZero(n) THEN <<0>>
  ELSE SubSeq(n, CHOOSE i \in 1..Len(n) : n[i] # 0 /\ \A j \in 1..(i - 1) : n[j] = 0, Len(n))

Pad(n, L) == Zeros(L - Len(n)) \o n

\* -1, 0, 1 for a < b, a = b, a > b (a and b stripped)
NatCmp(a, b) ==
  IF Len(a) # Len(b) THEN (IF Len(a) < Len(b) THEN -1 ELSE 1)
  ELSE IF a = b THEN 0
  ELSE IF \E k \in 1..Len(a) : a[k] < b[k] /\ \A j \in 1..(k - 1) : a[j] = b[j] THEN -1
  ELSE 1

\* a carry enters position i of A + B from the positions to its right
Carry(A, B, i) ==
  \E j \in (i + 1)..Len(A) :
    /\ A[j] + B[j] >= 10
    /\ \A k \in (i + 1)..(j - 1) : A[k] + B[k] = 9

\* A + B for A and B of one length
AddPadded(A, B) ==
  Strip((IF Carry(A, B, 0) THEN <<1>> ELSE <<>>) \o
        AsSeq([i \in 1..Len(A) |-> (A[i] + B[i] + (IF Carry(A, B, i) THEN 1 ELSE 0)) % 10]))

NatAdd(a, b) == Call2(AddPadded, Pad(a, Max(Len(a), Len(b))), Pad(b, Max(Len(a), Len(b))))

\* position i of A - B borrows from the position to its left
Borrow(A, B, i) ==
  \E j \in (i + 1)..Len(A) :
    /\ A[j] < B[j]
    /\ \A k \in (i + 1)..(j - 1) : A[k] = B[k]

\* A - B for A >= B of one length
SubPadded(A, B) ==
  Strip(AsSeq([i \in 1..Len(A) |-> (A[i] - B[i] - (IF Borrow(A, B, i) THEN 1 ELSE 0) + 10) % 10]))

\* a - b for a >= b
NatSub(a, b) == Call2(SubPadded, Pad(a, Max(Len(a), Len(b))), Pad(b, Max(Len(a), Len(b))))

\* a * 10^n
Shift(a, n) == IF NatIsZero(a) THEN <<0>> ELSE a \o Zeros(n)

\* a * k for a digit k: the units and the tens of the digit products, added
NatMulDigit(a, k) ==
  NatAdd(Strip(AsSeq([i \in 1..Len(a) |-> (a[i] * k) % 10])),
         Shift(Strip(AsSeq([i \in 1..Len(a) |-> (a[i] * k) \div 10])), 1))

\* the sum of a[i] * b[k - i] for i in lo..hi
RECURSIVE ColumnSum(_, _, _, _, _)
ColumnSum(a, b, k, lo, hi) ==
  IF lo > hi THEN 0
  ELSE IF lo = hi THEN a[lo] * b[k - lo]
  ELSE ColumnSum(a, b, k, lo, (lo + hi) \div 2) + ColumnSum(a, b, k, (lo + hi) \div 2 + 1, hi)

\* the column sums of the digit products of a and b, each below 10000
Columns(a, b) ==
  AsSeq([t \in 1..(Len(a) + Len(b) - 1) |->
          ColumnSum(a, b, t + 1, Max(1, t + 1 - Len(b)), Min(Len(a), t))])

\* the digits of the columns at the decimal place d = 1, 10, 100, 1000
Place(col, d) == Strip(AsSeq([t \in 1..Len(col) |-> (col[t] \div d) % 10]))

AddPlaces(col) ==
  NatAdd(NatAdd(Place(col, 1), Shift(Place(col, 10), 1)),
         NatAdd(Shift(Place(col, 100), 2), Shift(Place(col, 1000), 3)))

\* a * b
NatMul(a, b) == Call(AddPlaces, Columns(a, b))

\* <<0 * b, 1 * b, ..., 9 * b>>
Multiples(b) == AsSeq([k \in 1..10 |-> NatMulDigit(b, k - 1)])

\* the largest digit q with q * b <= r, given mult = Multiples(b) and r < 10 * b
QuotDigit(r, mult) ==
  CHOOSE q \in 0..9 : NatCmp(mult[q + 1], r) <= 0 /\ (q = 9 \/ NatCmp(mult[q + 2], r) > 0)

\* one step of the long division: r is the remainder with the next digit brought
\* down, q the digit of the quotient
DivDigit(r, q, mult) == [q |-> <<q>>, r |-> NatSub(r, mult[q + 1])]

DivStep(r, mult) == DivDigit(r, QuotDigit(r, mult), mult)

\* long division of the digits a[lo..hi], brought down one by one behind the
\* remainder rem < b: [q |-> the hi - lo + 1 quotient digits, r |-> the remainder].
\* The range is halved, the left half first, so that the evaluation stays shallow.
RECURSIVE DivRange(_, _, _, _, _)
DivRange(a, lo, hi, rem, mult) ==
  IF lo > hi THEN [q |-> <<>>, r |-> rem]
  ELSE IF lo = hi THEN Call2(DivStep, Strip(Append(rem, a[lo])), mult)
  ELSE LET Right(left) ==
             LET Join(right) == [q |-> left.q \o right.q, r |-> right.r]
             IN  Call(Join, DivRange(a, (lo + hi) \div 2 + 1, hi, left.r, mult))
       IN  Call(Right, DivRange(a, lo, (lo + hi) \div 2, rem, mult))

\* floor(a / b) and a mod b, for b # 0 (a and b stripped)
NatDivMod(a, b) ==
  LET Divide(mult) == DivRange(a, 1, Len(a), <<0>>, mult)
      Result(p) == [q |-> Strip(p.q), r |-> p.r]
  IN  Call(Result, Call(Divide, Multiples(b)))

\* a digit sequence of at most nine digits as an integer of the model checker
RECURSIVE NatToInt(_)
NatToInt(n) == IF n = <<>> THEN 0 ELSE 10 * NatToInt(sliceLast(n)) + n[Len(n)]

RECURSIVE IntToNat(_)
IntToNat(i) == IF i < 10 THEN <<i>> ELSE Append(IntToNat(i \div 10), i % 10)

(***************************************************************************)
(* JavaScript numbers.  Every number that arises is a decimal fraction,    *)
(* except quotients: a quotient is kept truncated to GuardDigits           *)
(* fractional digits, with inexact = TRUE when digits were cut off.        *)
(***************************************************************************)
FractionDigits == 10

\* the fractional digits of a quotient that are kept: 6 beyond FractionDigits
GuardDigits == FractionDigits + 6

NaN == [nan |-> TRUE, neg |-> FALSE, m |-> <<0>>, e |-> 0, inexact |-> FALSE]

\* the number of zeros that end m
ZerosAtEnd(m) ==
  CHOOSE z \in 0..Len(m) :
    /\ \A i \in (Len(m) - z + 1)..Len(m) : m[i] = 0
    /\ (z = Len(m) \/ m[Len(m) - z] # 0)

\* (-1)^neg * s * 10^e with the z trailing zeros of s moved into e (s stripped)
Normal(neg, s, e, z, inexact) ==
  [nan |-> FALSE, neg |-> neg, m |-> SubSeq(s, 1, Len(s) - z), e |-> e + z, inexact |-> inexact]

Num(neg, m, e, inexact) ==
  IF NatIsZero(m) THEN [nan |-> FALSE, neg |-> FALSE, m |-> <<0>>, e |-> 0, inexact |-> inexact]
  ELSE Normal(neg, Strip(m), e, ZerosAtEnd(m), inexact)

IsZero(x) == ~x.nan /\ NatIsZero(x.m) /\ ~x.inexact

\* Number.isFinite: no operation of the model overflows (see Binary64Agrees)
isFinite(x) == ~x.nan

\* the character of s at position i, "" beyond its end
At(s, i) == IF 1 <= i /\ i <= Len(s) THEN s[i] ELSE ""

\* the number of digits of s from position i on, up to the first other character
RunLen(s, i) ==
  CHOOSE n \in 0..Max(0, Len(s) - i + 1) :
    /\ \A j \in i..(i + n - 1) : IsDigit(s[j])
    /\ (i + n > Len(s) \/ ~IsDigit(s[i + n]))

\* the number read: nInt digits from position p, nFrac digits behind the point,
\* times ten to the exp
Decimal(s, p, nInt, nFrac, exp) ==
  Num(At(s, 1) = "-",
      ToDigits(SubSeq(s, p, p + nInt - 1) \o SubSeq(s, p + nInt + 1, p + nInt + nFrac)),
      exp - nFrac, FALSE)

\* the exponent: its digits start at position ep
ExponentDigits(s, p, nInt, nFrac, ep, eNeg) ==
  Decimal(s, p, nInt, nFrac,
          (IF eNeg THEN -1 ELSE 1) * NatToInt(ToDigits(SubSeq(s, ep, ep + RunLen(s, ep) - 1))))

\* the mantissa ends before position q
Mantissa(s, p, nInt, nFrac, q) ==
  IF nInt + nFrac = 0 THEN NaN
  ELSE IF At(s, q) \in {"e", "E"}
  THEN ExponentDigits(s, p, nInt, nFrac,
                      IF At(s, q + 1) \in {"-", "+"} THEN q + 2 ELSE q + 1, At(s, q + 1) = "-")
  ELSE Decimal(s, p, nInt, nFrac, 0)

FractionDigitsOf(s, p, nInt, nFrac) == Mantissa(s, p, nInt, nFrac, p + nInt + 1 + nFrac)

IntegerDigits(s, p, nInt) ==
  IF At(s, p + nInt) = "." THEN FractionDigitsOf(s, p, nInt, RunLen(s, p + nInt + 1))
  ELSE Mantissa(s, p, nInt, 0, p + nInt)

Unsigned(s, p) == IntegerDigits(s, p, RunLen(s, p))

\* parseFloat: the longest prefix of s that is a decimal literal
\* [sign] digits [. digits] [e [sign] digits], NaN when there is none
parseFloat(s) == Unsigned(s, IF At(s, 1) \in {"-", "+"} THEN 2 ELSE 1)

\* the sum of (-1)^xneg * a * 10^e and (-1)^yneg * b * 10^e
AddSigned(xneg, a, yneg, b, e) ==
  IF xneg = yneg THEN Num(xneg, NatAdd(a, b), e, FALSE)
  ELSE IF NatCmp(a, b) >= 0 THEN Num(xneg, NatSub(a, b), e, FALSE)
  ELSE Num(yneg, NatSub(b, a), e, FALSE)

\* x + y, exactly
Combine(x, y) ==
  AddSigned(x.neg, Shift(x.m, x.e - Min(x.e, y.e)), y.neg, Shift(y.m, y.e - Min(x.e, y.e)),
            Min(x.e, y.e))

Negate(x) == IF NatIsZero(x.m) THEN x ELSE [x EXCEPT !.neg = ~x.neg]

\* x / y to GuardDigits fractional digits, the rest cut off
Quotient(x, y) ==
  LET Result(d) == Num(x.neg # y.neg, d.q, -GuardDigits, ~NatIsZero(d.r))
  IN  Call(Result, IF x.e - y.e + GuardDigits >= 0
                   THEN NatDivMod(Shift(x.m, x.e - y.e + GuardDigits), y.m)
                   ELSE NatDivMod(x.m, Shift(y.m, y.e - x.e - GuardDigits)))

\* the table of operators: a / b, a * b, a - b, a + b
operators(op, a, b) ==
  CASE op = "div" -> Quotient(a, b)
    [] op = "mul" -> Num(a.neg # b.neg, NatMul(a.m, b.m), a.e + b.e, FALSE)
    [] op = "sub" -> Combine(a, Negate(b))
    [] op = "add" -> Combine(a, b)

\* the digits of |x| before the decimal point
IntPart(x) ==
  IF x.e >= 0 THEN Shift(x.m, x.e)
  ELSE IF Len(x.m) + x.e <= 0 THEN <<0>>
  ELSE SubSeq(x.m, 1, Len(x.m) + x.e)

\* the first n digits of |x| after the decimal point
FracPart(x, n) ==
  IF x.e >= 0 THEN Zeros(n)
  ELSE SubSeq(Zeros(-x.e - Len(x.m)) \o SubSeq(x.m, Max(1, Len(x.m) + x.e + 1), Len(x.m)) \o
              Zeros(n), 1, n)

\* "e+21", "e-7"
ExponentPart(ex) ==
  <<"e">> \o (IF ex < 0 THEN <<"-">> ELSE <<"+">>) \o ToChars(IntToNat(IF ex < 0 THEN -ex ELSE ex))

\* the digits c of a number, written with the decimal point after n of them
Written(sign, c, n) ==
  IF Len(c) <= n /\ n <= 21 THEN sign \o c \o ZeroChars(n - Len(c))
  ELSE IF 0 < n /\ n <= 21 THEN sign \o SubSeq(c, 1, n) \o <<".">> \o SubSeq(c, n + 1, Len(c))
  ELSE IF -6 < n /\ n <= 0 THEN sign \o <<"0", ".">> \o ZeroChars(-n) \o c
  ELSE IF Len(c) = 1 THEN sign \o c \o ExponentPart(n - 1)
  ELSE sign \o <<c[1], ".">> \o SubSeq(c, 2, Len(c)) \o ExponentPart(n - 1)

\* Number.prototype.toString of a decimal x
toString(x) ==
  IF NatIsZero(x.m) THEN <<"0">>
  ELSE Written(IF x.neg THEN <<"-">> ELSE <<>>, ToChars(x.m), Len(x.m) + x.e)

\* |x| in units of 10^-FractionDigits, halves rounded away from zero: int are the
\* digits before the point, f the first FractionDigits + 1 digits behind it
Rounded(int, f) ==
  IF f[FractionDigits + 1] >= 5 THEN NatAdd(Strip(int \o SubSeq(f, 1, FractionDigits)), <<1>>)
  ELSE Strip(int \o SubSeq(f, 1, FractionDigits))

\* the digits all, the last FractionDigits of them behind the point
WriteFixed(sign, all) ==
  sign \o ToChars(SubSeq(all, 1, Len(all) - FractionDigits)) \o <<".">> \o
  ToChars(SubSeq(all, Len(all) - FractionDigits + 1, Len(all)))

Fixed(sign, n) == WriteFixed(sign, Pad(n, Max(Len(n), FractionDigits + 1)))

\* Number.prototype.toFixed(10): x rounded to ten fractional digits, halves away
\* from zero, written with exactly ten fractional digits; toString from 1e21 on
toFixed(x) ==
  IF Len(IntPart(x)) > 21 THEN toString(x)
  ELSE Fixed(IF x.neg THEN <<"-">> ELSE <<>>, Rounded(IntPart(x), FracPart(x, FractionDigits + 1)))

(***************************************************************************)
(* The pure functions of the source                                        *)
(***************************************************************************)
Error == <<"E", "r", "r", "o", "r">>

initialCurrent == <<"0">>

MAX_LENGTH == 18

sanitizeNumber(value) ==
  IF value = Error THEN initialCurrent
  ELSE IF value = <<>> THEN initialCurrent
  ELSE value

\* the number of "0" characters that end s
TrailingZeros(s) ==
  CHOOSE z \in 0..Len(s) :
    /\ \A i \in (Len(s) - z + 1)..Len(s) : s[i] = "0"
    /\ (z = Len(s) \/ s[Len(s) - z] # "0")

\* value.replace(/\.0+$/, ''): a point followed by nothing but zeros, at least one
DropPointZeros(s) ==
  LET z == TrailingZeros(s)
  IN  IF z >= 1 /\ Len(s) > z /\ s[Len(s) - z] = "." THEN SubSeq(s, 1, Len(s) - z - 1) ELSE s

\* replace(/(\.\d*)0$/, '$1') in place of the second replacement: one zero at
\* the end is dropped, not all of them
DropOneFractionZero(s) ==
  IF /\ Len(s) >= 1 /\ s[Len(s)] = "0"
     /\ \E i \in 1..(Len(s) - 1) : s[i] = "." /\ AllDigits(SubSeq(s, i + 1, Len(s)))
  THEN sliceLast(s)
  ELSE s

\* value.replace(/(\.\d*?[1-9])0+$/, '$1'): after some point only digits follow,
\* the last of them zeros behind a nonzero digit; the zeros are dropped
DropFractionZeros(s) ==
  LET z == TrailingZeros(s)
      t == SubSeq(s, 1, Len(s) - z)
  IN  IF /\ z >= 1
         /\ \E i \in 1..Len(t) : t[i] = "." /\ i < Len(t) /\ AllDigits(SubSeq(t, i + 1, Len(t)))
      THEN t
      ELSE s

\* value.replace(/\.$/, '')
DropLastPoint(s) == IF Len(s) > 0 /\ s[Len(s)] = "." THEN sliceLast(s) ELSE s

trimTrailingZeros(value) ==
  IF ~includes(value, ".") THEN value
  ELSE LET trimmed == DropLastPoint(DropFractionZeros(DropPointZeros(value)))
       IN  IF trimmed = <<>> THEN initialCurrent ELSE trimmed

formatResult(value) ==
  LET Format(fixed) ==
        IF ~isFinite(fixed) THEN Error ELSE Call(trimTrailingZeros, toString(fixed))
  IN  Call(Format, Call(parseFloat, toFixed(value)))

\* compute without the check for a zero divisor, the quotient Infinity written
\* as it is
computeInfinity(a, b, op) ==
  LET Result(first, second) ==
        IF ~isFinite(first) \/ ~isFinite(second) THEN Error
        ELSE IF op = "div" /\ IsZero(second)
        THEN (IF first.neg THEN <<"-">> ELSE <<>>) \o <<"I", "n", "f", "i", "n", "i", "t", "y">>
        ELSE Call(formatResult, operators(op, first, second))
  IN  Call2(Result, parseFloat(a), parseFloat(b))

compute(a, b, op) ==
  LET Result(first, second) ==
        IF ~isFinite(first) \/ ~isFinite(second) THEN Error
        ELSE IF op = "div" /\ IsZero(second) THEN Error
        ELSE Call(formatResult, operators(op, first, second))
  IN  Call2(Result, parseFloat(a), parseFloat(b))

(***************************************************************************)
(* Where the decimal arithmetic above is the arithmetic of the source.     *)
(* The source computes in IEEE 754 binary64.  compute(a, b, op) as         *)
(* defined above returns what the source returns in two cases.             *)
(*  - Exact: both operands and the exact result are integers of the form   *)
(*    m * 10^e with m * 5^e < 2^53.  Such integers are binary64 numbers,   *)
(*    the operation is exact, and the shortest decimal that reads back as  *)
(*    the result is m itself.                                              *)
(*  - Small: operands and result are below 10^5 in magnitude, and the      *)
(*    exact result is further from every rounding boundary of toFixed(10)  *)
(*    than the rounding error of binary64, which is at most                *)
(*    3.4 * 10^-16 * (|a| + |b| + |result|).  Then toFixed(10) yields the  *)
(*    exact result rounded to ten digits, a decimal of at most 15          *)
(*    significant digits, which parseFloat and toString reproduce.  A      *)
(*    quotient is only taken when it is below 10^6 by the sizes of its     *)
(*    operands.                                                            *)
(* The environment only performs computations that lie in one of them.     *)
(***************************************************************************)
TwoTo53 == <<9, 0, 0, 7, 1, 9, 9, 2, 5, 4, 7, 4, 0, 9, 9, 2>>

\* 5^0 .. 5^22, the powers of five below 2^53
PowersOf5 == <<
  <<1>>,
  <<5>>,
  <<2, 5>>,
  <<1, 2, 5>>,
  <<6, 2, 5>>,
  <<3, 1, 2, 5>>,
  <<1, 5, 6, 2, 5>>,
  <<7, 8, 1, 2, 5>>,
  <<3, 9, 0, 6, 2, 5>>,
  <<1, 9, 5, 3, 1, 2, 5>>,
  <<9, 7, 6, 5, 6, 2, 5>>,
  <<4, 8, 8, 2, 8, 1, 2, 5>>,
  <<2, 4, 4, 1, 4, 0, 6, 2, 5>>,
  <<1, 2, 2, 0, 7, 0, 3, 1, 2, 5>>,
  <<6, 1, 0, 3, 5, 1, 5, 6, 2, 5>>,
  <<3, 0, 5, 1, 7, 5, 7, 8, 1, 2, 5>>,
  <<1, 5, 2, 5, 8, 7, 8, 9, 0, 6, 2, 5>>,
  <<7, 6, 2, 9, 3, 9, 4, 5, 3, 1, 2, 5>>,
  <<3, 8, 1, 4, 6, 9, 7, 2, 6, 5, 6, 2, 5>>,
  <<1, 9, 0, 7, 3, 4, 8, 6, 3, 2, 8, 1, 2, 5>>,
  <<9, 5, 3, 6, 7, 4, 3, 1, 6, 4, 0, 6, 2, 5>>,
  <<4, 7, 6, 8, 3, 7, 1, 5, 8, 2, 0, 3, 1, 2, 5>>,
  <<2, 3, 8, 4, 1, 8, 5, 7, 9, 1, 0, 1, 5, 6, 2, 5>> >>

ExactlyRepresentable(x) ==
  /\ ~x.inexact
  /\ x.e >= 0
  /\ x.e <= 22
  /\ NatCmp(NatMul(x.m, PowersOf5[x.e + 1]), TwoTo53) < 0

\* the integer digits of the numbers whose rounding is decided by the kept digits
SmallDigits == GuardDigits - FractionDigits - 1

Abs(i) == IF i < 0 THEN -i ELSE i

\* |x| < 10^Magnitude(x)
Magnitude(x) == Len(x.m) + x.e

WithinRounding(x, y, r) ==
  /\ Len(IntPart(x)) <= SmallDigits
  /\ Len(IntPart(y)) <= SmallDigits
  /\ Len(IntPart(r)) <= SmallDigits
  /\ LET sum == NatToInt(IntPart(x)) + NatToInt(IntPart(y)) + NatToInt(IntPart(r)) + 3
         guard == NatToInt(SubSeq(FracPart(r, GuardDigits), FractionDigits + 1, GuardDigits))
     IN  Abs(guard - 500000) - 1 > 5 * sum

\* r is the exact result of x op y
AgreesOn(x, y, op, r) ==
  \/ /\ op # "div"
     /\ ExactlyRepresentable(x) /\ ExactlyRepresentable(y) /\ ExactlyRepresentable(r)
  \/ /\ op = "div" => Magnitude(x) - Magnitude(y) <= SmallDigits
     /\ WithinRounding(x, y, r)

Binary64Agrees(a, b, op) ==
  LET Agrees(x, y) ==
        \/ ~isFinite(x)
        \/ ~isFinite(y)
        \/ op = "div" /\ IsZero(y)
        \/ Call(LAMBDA r : AgreesOn(x, y, op, r), operators(op, x, y))
  IN  Call2(Agrees, parseFloat(a), parseFloat(b))

(***************************************************************************)
(* The component.  Its state is the four useState cells of App.  A handler *)
(* runs inside one render: the names current, previous, operator and       *)
(* overwrite it reads are the constants of that render, and the setters it *)
(* calls only queue the values of the next render, the last value set for  *)
(* a cell winning.  So a handler is a function from the state s of the     *)
(* render (what it reads) to the state of the next render; the calls of a  *)
(* handler are applied in order to the queued state, never to s.           *)
(***************************************************************************)
VARIABLES current, previous, operator, overwrite, clicks, last

vars == <<current, previous, operator, overwrite, clicks, last>>

\* null for previous (a string or null) and for operator (an Operator or null)
NoPrevious == <<"null">>

NoOperator == "null"

Operators == {"div", "mul", "sub", "add"}

State == [current |-> current, previous |-> previous, operator |-> operator,
          overwrite |-> overwrite]

InitialState == [current |-> initialCurrent, previous |-> NoPrevious,
                 operator |-> NoOperator, overwrite |-> FALSE]

\* setCurrent(initialCurrent); setPrevious(null); setOperator(null); setOverwrite(false)
\* clearAll without setOperator(null)
clearAllKeepsOperator(s) == [InitialState EXCEPT !.operator = s.operator]

clearAll(s) == InitialState

\* the updates queued by resetIfError in the render s
resetIfError(s) == IF s.current = Error THEN clearAll(s) ELSE s

\* handleDigit without the check of the length
handleDigitUnlimited(s, digit) ==
  LET q == resetIfError(s)
      next == IF s.overwrite \/ s.current = initialCurrent THEN <<digit>>
              ELSE Append(s.current, digit)
  IN  IF s.overwrite THEN [q EXCEPT !.current = next, !.overwrite = FALSE]
      ELSE [q EXCEPT !.current = IF next = <<>> THEN initialCurrent ELSE next]

\* handleDigit without setOverwrite(false)
handleDigitKeepsOverwrite(s, digit) ==
  LET q == resetIfError(s)
      next == IF s.overwrite \/ s.current = initialCurrent THEN <<digit>>
              ELSE Append(s.current, digit)
  IN  IF Len(replaceFirst(next, "-")) > MAX_LENGTH THEN q
      ELSE [q EXCEPT !.current = IF next = <<>> THEN initialCurrent ELSE next]

handleDigit(s, digit) ==
  LET q == resetIfError(s)
      next == IF s.overwrite \/ s.current = initialCurrent THEN <<digit>>
              ELSE Append(s.current, digit)
  IN  IF Len(replaceFirst(next, "-")) > MAX_LENGTH THEN q
      ELSE IF s.overwrite THEN [q EXCEPT !.current = next, !.overwrite = FALSE]
      ELSE [q EXCEPT !.current = IF next = <<>> THEN initialCurrent ELSE next]

\* handleDecimal without the check for a decimal point that is already there
handleDecimalAgain(s) ==
  LET q == resetIfError(s)
  IN  IF s.overwrite THEN [q EXCEPT !.current = <<"0", ".">>, !.overwrite = FALSE]
      ELSE IF Len(replaceFirst(Append(s.current, "."), "-")) > MAX_LENGTH THEN q
      ELSE [q EXCEPT !.current = Append(s.current, ".")]

\* handleDecimal with the test of overwrite before the test for a decimal point
handleDecimalOverwritesFirst(s) ==
  LET q == resetIfError(s)
  IN  IF s.overwrite THEN [q EXCEPT !.current = <<"0", ".">>, !.overwrite = FALSE]
      ELSE IF includes(s.current, ".") THEN q
      ELSE IF Len(replaceFirst(Append(s.current, "."), "-")) > MAX_LENGTH THEN q
      ELSE [q EXCEPT !.current = Append(s.current, ".")]

handleDecimal(s) ==
  LET q == resetIfError(s)
  IN  IF includes(s.current, ".") THEN q
      ELSE IF s.overwrite THEN [q EXCEPT !.current = <<"0", ".">>, !.overwrite = FALSE]
      ELSE IF Len(replaceFirst(Append(s.current, "."), "-")) > MAX_LENGTH THEN q
      ELSE [q EXCEPT !.current = Append(s.current, ".")]

\* handleOperator that replaces a pending operator without evaluating it
handleOperatorReplaces(s, nextOp) ==
  LET q == resetIfError(s)
  IN  [q EXCEPT !.previous = IF s.operator # NoOperator /\ s.previous # NoPrevious
                             THEN s.previous ELSE s.current,
                !.operator = nextOp, !.overwrite = TRUE]

\* handleOperator without setOverwrite(true)
handleOperatorKeepsOverwrite(s, nextOp) ==
  LET q == resetIfError(s)
  IN  IF s.operator # NoOperator /\ s.previous # NoPrevious /\ ~s.overwrite
      THEN LET result == compute(s.previous, s.current, s.operator)
           IN  [q EXCEPT !.previous = result, !.current = result, !.operator = nextOp]
      ELSE [q EXCEPT !.previous = s.current, !.operator = nextOp]

\* handleOperator without the test of overwrite
handleOperatorEvaluatesAgain(s, nextOp) ==
  LET q == resetIfError(s)
  IN  IF s.operator # NoOperator /\ s.previous # NoPrevious
      THEN LET result == compute(s.previous, s.current, s.operator)
           IN  [q EXCEPT !.previous = result, !.current = result,
                         !.operator = nextOp, !.overwrite = TRUE]
      ELSE [q EXCEPT !.previous = s.current, !.operator = nextOp, !.overwrite = TRUE]

handleOperator(s, nextOp) ==
  LET q == resetIfError(s)
  IN  IF s.operator # NoOperator /\ s.previous # NoPrevious /\ ~s.overwrite
      THEN LET result == compute(s.previous, s.current, s.operator)
           IN  [q EXCEPT !.previous = result, !.current = result,
                         !.operator = nextOp, !.overwrite = TRUE]
      ELSE [q EXCEPT !.previous = s.current, !.operator = nextOp, !.overwrite = TRUE]

\* handleEqual with the operands of compute exchanged
handleEqualSwapped(s) ==
  LET q == resetIfError(s)
  IN  IF s.operator = NoOperator \/ s.previous = NoPrevious THEN q
      ELSE LET result == compute(s.current, s.previous, s.operator)
           IN  [q EXCEPT !.current = result, !.previous = NoPrevious,
                         !.operator = NoOperator, !.overwrite = TRUE]

\* handleEqual without setOperator(null)
handleEqualKeepsOperator(s) ==
  LET q == resetIfError(s)
  IN  IF s.operator = NoOperator \/ s.previous = NoPrevious THEN q
      ELSE LET result == compute(s.previous, s.current, s.operator)
           IN  [q EXCEPT !.current = result, !.previous = NoPrevious, !.overwrite = TRUE]

\* handleEqual with setOverwrite(true) before the test for a pending operator
handleEqualSetsOverwrite(s) ==
  LET q == resetIfError(s)
  IN  IF s.operator = NoOperator \/ s.previous = NoPrevious THEN [q EXCEPT !.overwrite = TRUE]
      ELSE LET result == compute(s.previous, s.current, s.operator)
           IN  [q EXCEPT !.current = result, !.previous = NoPrevious,
                         !.operator = NoOperator, !.overwrite = TRUE]

\* handleEqual without setOverwrite(true)
handleEqualKeepsOverwrite(s) ==
  LET q == resetIfError(s)
  IN  IF s.operator = NoOperator \/ s.previous = NoPrevious THEN q
      ELSE LET result == compute(s.previous, s.current, s.operator)
           IN  [q EXCEPT !.current = result, !.previous = NoPrevious,
                         !.operator = NoOperator]

handleEqual(s) ==
  LET q == resetIfError(s)
  IN  IF s.operator = NoOperator \/ s.previous = NoPrevious THEN q
      ELSE LET result == compute(s.previous, s.current, s.operator)
           IN  [q EXCEPT !.current = result, !.previous = NoPrevious,
                         !.operator = NoOperator, !.overwrite = TRUE]

\* handleDelete with current.slice(1) in place of current.slice(0, -1)
handleDeleteFirst(s) ==
  LET q == resetIfError(s)
  IN  IF s.overwrite THEN [q EXCEPT !.current = initialCurrent, !.overwrite = FALSE]
      ELSE IF Len(s.current) <= 1 THEN [q EXCEPT !.current = initialCurrent]
      ELSE [q EXCEPT !.current = SubSeq(s.current, 2, Len(s.current))]

\* handleDelete without the test current.length <= 1
handleDeleteToEmpty(s) ==
  LET q == resetIfError(s)
  IN  IF s.overwrite THEN [q EXCEPT !.current = initialCurrent, !.overwrite = FALSE]
      ELSE [q EXCEPT !.current = sliceLast(s.current)]

handleDelete(s) ==
  LET q == resetIfError(s)
  IN  IF s.overwrite THEN [q EXCEPT !.current = initialCurrent, !.overwrite = FALSE]
      ELSE IF Len(s.current) <= 1 THEN [q EXCEPT !.current = initialCurrent]
      ELSE [q EXCEPT !.current = sliceLast(s.current)]

\* a button of the keypad: its action, and its label (digit) or value (operator)
Button(action, value) == [action |-> action, value |-> value]

handleButtonClick(button, s) ==
  CASE button.action = "digit" -> handleDigit(s, button.value)
    [] button.action = "decimal" -> handleDecimal(s)
    [] button.action = "operator" -> handleOperator(s, button.value)
    [] button.action = "equal" -> handleEqual(s)
    [] button.action = "clear" -> clearAll(s)
    [] button.action = "delete" -> handleDelete(s)
    [] OTHER -> s

\* the current-value line and the history line of the display
displayValue == sanitizeNumber(current)

historyLine ==
  IF previous # NoPrevious /\ previous # <<>> /\ operator # NoOperator
  THEN previous \o <<" ">> \o <<operator>>
  ELSE <<" ">>

(***************************************************************************)
(* The environment: a user who clicks at most MaxClicks buttons, with the  *)
(* digits of Digits, and only where the arithmetic of a click is within    *)
(* the reach of the model (Binary64Agrees).  last records the button of    *)
(* the latest click, the state it was clicked in, and whether an operand   *)
(* had been typed or edited by then since the latest operator.             *)
(***************************************************************************)
MaxClicks == 5

Digits == {"0", "2", "3"}

\* the click evaluates compute(s.previous, s.current, s.operator)
Computes(button, s) ==
  /\ s.operator # NoOperator
  /\ s.previous # NoPrevious
  /\ \/ button.action = "equal"
     \/ button.action = "operator" /\ ~s.overwrite

Modelled(button, s) ==
  Computes(button, s) => Binary64Agrees(s.previous, s.current, s.operator)

NoButton == Button("none", "")

Init ==
  /\ current = initialCurrent
  /\ previous = NoPrevious
  /\ operator = NoOperator
  /\ overwrite = FALSE
  /\ clicks = 0
  /\ last = [button |-> NoButton, from |-> InitialState, typed |-> FALSE, edited |-> FALSE]

\* since the latest click on an operator, or since the start if there is none, one
\* of the actions has been clicked; last.typed and last.edited say so of the
\* state of the latest click, for the digits and the decimal point, and for these
\* and delete
Since(actions, before) ==
  /\ last.button.action # "operator"
  /\ (last.button.action \in actions \/ before)

TypedSince == Since({"digit", "decimal"}, last.typed)

EditedSince == Since({"digit", "decimal", "delete"}, last.edited)

\* onClick={() => handleButtonClick(button)}, and the render that follows
Click(button) ==
  /\ Modelled(button, State)
  /\ \E t \in {handleButtonClick(button, State)} :
         /\ current' = t.current
         /\ previous' = t.previous
         /\ operator' = t.operator
         /\ overwrite' = t.overwrite
  /\ clicks' = clicks + 1
  /\ last' = [button |-> button, from |-> State, typed |-> TypedSince, edited |-> EditedSince]

ClickDigit ==
  /\ clicks < MaxClicks
  /\ \E d \in Digits : Click(Button("digit", d))

ClickDecimal ==
  /\ clicks < MaxClicks
  /\ Click(Button("decimal", "."))

ClickOperator ==
  /\ clicks < MaxClicks
  /\ \E op \in Operators : Click(Button("operator", op))

ClickEqual ==
  /\ clicks < MaxClicks
  /\ Click(Button("equal", "="))

ClickClear ==
  /\ clicks < MaxClicks
  /\ Click(Button("clear", "C"))

ClickDelete ==
  /\ clicks < MaxClicks
  /\ Click(Button("delete", "DEL"))

Next ==
  \/ ClickDigit
  \/ ClickDecimal
  \/ ClickOperator
  \/ ClickEqual
  \/ ClickClear
  \/ ClickDelete

Spec == Init /\ [][Next]_vars

(***************************************************************************)
(* A second environment, for the limit on the length of a number: a user   *)
(* who types the digits of LongOperand, an operand of MAX_LENGTH           *)
(* characters, or any beginning of it, and goes on pressing digits and the *)
(* decimal point once the limit is reached.  The powers of ten keep the    *)
(* results few, so that MaxLongClicks can exceed MAX_LENGTH.               *)
(***************************************************************************)
MaxLongClicks == 20

LongOperators == {"mul"}

LongOperand == <<"1">> \o ZeroChars(MAX_LENGTH - 1)

LongDigits == {LongOperand[i] : i \in 1..Len(LongOperand)}

\* the operand that a click on button would leave in current, were there no limit
Typed(button, s) ==
  LET char == IF button.action = "decimal" THEN "." ELSE button.value
  IN  IF s.overwrite THEN (IF char = "." THEN <<"0", ".">> ELSE <<char>>)
      ELSE IF s.current = initialCurrent /\ char # "." THEN <<char>>
      ELSE Append(s.current, char)

IsPrefix(s, t) == Len(s) <= Len(t) /\ SubSeq(t, 1, Len(s)) = s

Types(button, s) ==
  \/ IsPrefix(Typed(button, s), LongOperand)
  \/ Len(Typed(button, s)) > MAX_LENGTH
  \/ button.action = "decimal" /\ (s.overwrite \/ includes(s.current, "."))

LongDigit ==
  /\ clicks < MaxLongClicks
  /\ \E d \in LongDigits : Types(Button("digit", d), State) /\ Click(Button("digit", d))

LongDecimal ==
  /\ clicks < MaxLongClicks
  /\ Types(Button("decimal", "."), State)
  /\ Click(Button("decimal", "."))

LongOperator ==
  /\ clicks < MaxLongClicks
  /\ \E op \in LongOperators : Click(Button("operator", op))

LongEqual ==
  /\ clicks < MaxLongClicks
  /\ Click(Button("equal", "="))

LongClear ==
  /\ clicks < MaxLongClicks
  /\ Click(Button("clear", "C"))

LongDelete ==
  /\ clicks < MaxLongClicks
  /\ Click(Button("delete", "DEL"))

NextLong ==
  \/ LongDigit
  \/ LongDecimal
  \/ LongOperator
  \/ LongEqual
  \/ LongClear
  \/ LongDelete

SpecLong == Init /\ [][NextLong]_vars

(***************************************************************************)
(* A third specification, for trimTrailingZeros alone: current starts as   *)
(* any string of at most MaxTrimLen characters of TrimChars with at most   *)
(* one decimal point, and trimTrailingZeros is applied to it MaxTrims      *)
(* times; last.from records the string it was applied to.                  *)
(***************************************************************************)
MaxTrimLen == 5

MaxTrims == 2

TrimChars == {"0", "5", "."}

Strings(n) == UNION {[1..k -> TrimChars] : k \in 0..n}

DecimalStrings ==
  {x \in Strings(MaxTrimLen) : Cardinality({i \in 1..Len(x) : x[i] = "."}) <= 1}

InitTrim ==
  /\ current \in DecimalStrings
  /\ previous = NoPrevious
  /\ operator = NoOperator
  /\ overwrite = FALSE
  /\ clicks = 0
  /\ last = [button |-> NoButton, from |-> InitialState, typed |-> FALSE, edited |-> FALSE]

Trim ==
  /\ clicks < MaxTrims
  /\ current' = trimTrailingZeros(current)
  /\ clicks' = clicks + 1
  /\ last' = [last EXCEPT !.from = State]
  /\ UNCHANGED <<previous, operator, overwrite>>

SpecTrim == InitTrim /\ [][Trim]_vars

(***************************************************************************)
(* The properties.  Each is stated about the latest click: Before is the   *)
(* state the button was clicked in, State the state the click left.        *)
(***************************************************************************)
Before == last.from

Pressed(action) == last.button.action = action

Keypad ==
  {Button("digit", DigitChars[i]) : i \in 1..10} \cup
  {Button("operator", op) : op \in Operators} \cup
  {Button("decimal", "."), Button("equal", "="), Button("clear", "C"), Button("delete", "DEL")}

ErrorState == [current |-> Error, previous |-> NoPrevious, operator |-> NoOperator, overwrite |-> TRUE]

\* the length of an operand, a leading minus sign not counted
Length(s) == Len(replaceFirst(s, "-"))

\* C1: in a state with current = "Error", a digit, decimal, operator, equal or
\* delete leaves the state that the same action leaves when applied to the initial
\* state; nothing of the error state is carried over.
C1_ErrorActsAsInitial ==
  (Before.current = Error /\ last.button.action \in {"digit", "decimal", "operator", "equal", "delete"})
    => State = handleButtonClick(last.button, InitialState)

\* C2: the user is never stuck in the error state: one action, whichever it is,
\* applied in a state with current = "Error" leaves current different from "Error".
C2_NeverStuckInError ==
  (Before.current = Error /\ ~Pressed("none")) => current # Error

\* C3: equal with a pending division and a current operand that is zero leaves
\* current = "Error", no previous, no operator and overwrite set, whatever the
\* previous operand; and every button then leaves the error behind.
C3_DivisionByZero ==
  (/\ Pressed("equal")
   /\ Before.operator = "div"
   /\ Before.previous # NoPrevious
   /\ IsZero(parseFloat(Before.current)))
    => /\ State = ErrorState
       /\ \A button \in Keypad : handleButtonClick(button, State).current # Error

\* a number has been divided by a zero written "0."
C3_Witness ==
  /\ Pressed("equal")
  /\ Before.operator = "div"
  /\ Before.previous = <<"2">>
  /\ Before.current = <<"0", ".">>
  /\ current = Error

\* C4: when current is the error sentinel, the current-value line of the display
\* shows the text "Error".
C4_ErrorIsDisplayed == current = Error => displayValue = Error

\* C5: clear, in any state, leaves exactly the initial state.
C5_ClearResets == Pressed("clear") => State = InitialState

\* clear has been pressed with an operator pending and a second operand typed
C5_Witness ==
  /\ Pressed("clear")
  /\ Before.operator # NoOperator
  /\ Before.previous # NoPrevious
  /\ Before.current # initialCurrent
  /\ ~Before.overwrite

\* C6: in a state that is no error state and has a pending operator, equal sets
\* current to compute(previous, current, operator), clears previous and operator
\* and sets overwrite; so 2 + 3 = leaves "5".
C6_EqualEvaluates ==
  /\ (Pressed("equal") /\ Before.current # Error /\ Before.operator # NoOperator)
       => State = [current |-> compute(Before.previous, Before.current, Before.operator),
                   previous |-> NoPrevious, operator |-> NoOperator, overwrite |-> TRUE]
  /\ (Pressed("equal") /\ Before.previous = <<"2">> /\ Before.operator = "add" /\
      Before.current = <<"3">>)
       => current = <<"5">>

\* 3 - 2 =
C6_Witness ==
  /\ Pressed("equal")
  /\ Before.previous = <<"3">>
  /\ Before.operator = "sub"
  /\ Before.current = <<"2">>
  /\ ~Before.overwrite
  /\ current = <<"1">>

\* the state after the digits of c and equal, from the state s
ThenEqual(s, c) ==
  handleButtonClick(Button("equal", "="),
                    IF Len(c) = 1 THEN handleButtonClick(Button("digit", c[1]), s)
                    ELSE handleButtonClick(Button("digit", c[2]),
                                           handleButtonClick(Button("digit", c[1]), s)))

\* the third operands of the chains that are looked at
ThirdOperands == {<<"0">>, <<"3">>, <<"4">>, <<"2", "0">>}

\* an operator has been pressed behind a op1 b, with b typed
Chained == Pressed("operator") /\ Before.operator # NoOperator /\ ~Before.overwrite

\* C7 as stated: an operator pressed behind a op1 b leaves previous = current =
\* compute(a, b, op1) and itself pending, and c = then leaves
\* compute(compute(a, b, op1), c, op2).
C7_ChainLeftToRight ==
  Chained =>
    /\ current = compute(Before.previous, Before.current, Before.operator)
    /\ previous = current
    /\ operator = last.button.value
    /\ \A c \in ThirdOperands : ThenEqual(State, c).current = compute(current, c, operator)

\* C7 amended: the same, the result of c = being claimed only where
\* compute(a, b, op1) is not the error sentinel.
C7_ChainLeftToRightUnlessError ==
  Chained =>
    /\ current = compute(Before.previous, Before.current, Before.operator)
    /\ previous = current
    /\ operator = last.button.value
    /\ current # Error =>
         \A c \in ThirdOperands : ThenEqual(State, c).current = compute(current, c, operator)
    /\ (Before.previous = <<"2">> /\ Before.operator = "add" /\ Before.current = <<"3">> /\
        operator = "mul")
         => ThenEqual(State, <<"4">>).current = <<"2", "0">>

\* 2 + 3 x
C7_Witness ==
  /\ Chained
  /\ Before.previous = <<"2">>
  /\ Before.operator = "add"
  /\ Before.current = <<"3">>
  /\ operator = "mul"
  /\ current = <<"5">>

\* C8: operator is present exactly when previous is present.
C8_OperatorIffPrevious == (operator # NoOperator) <=> (previous # NoPrevious)

\* an operator and a previous operand are present, a result having been used as
\* the first operand
C8_Witness ==
  /\ Pressed("operator")
  /\ Before.operator = NoOperator
  /\ Before.overwrite
  /\ Before.current # initialCurrent
  /\ Before.current # Error
  /\ operator # NoOperator
  /\ previous = Before.current

\* C9: in every state current, a leading minus sign not counted, has at most
\* MAX_LENGTH characters, results included.
C9_CurrentWithinLimit == Length(current) <= MAX_LENGTH

Points(s) == Cardinality({i \in 1..Len(s) : s[i] = "."})

\* C11: in every reachable state current contains at most one decimal point.
C11_OneDecimalPoint == Points(current) <= 1

\* the decimal point has been pressed behind a typed operand that has one
C11_Witness ==
  /\ Pressed("decimal")
  /\ Points(Before.current) = 1
  /\ ~Before.overwrite
  /\ Points(current) = 1
  /\ \E i \in 1..Len(current) : current[i] = "." /\ i < Len(current)

\* C12: delete in a state that is no error state: with overwrite set, current
\* becomes "0" and overwrite false; else with a current of at most one character,
\* current becomes "0"; otherwise current loses exactly its last character.
\* previous and operator stay as they were in all three cases.
C12_DeleteEdits ==
  (Pressed("delete") /\ Before.current # Error) =>
    /\ previous = Before.previous
    /\ operator = Before.operator
    /\ Before.overwrite => (current = <<"0">> /\ ~overwrite)
    /\ (~Before.overwrite /\ Len(Before.current) <= 1) => current = <<"0">>
    /\ (~Before.overwrite /\ Len(Before.current) > 1) =>
         Append(current, Before.current[Len(Before.current)]) = Before.current

\* the last character of a second operand has been deleted
C12_Witness ==
  /\ Pressed("delete")
  /\ ~Before.overwrite
  /\ Before.operator # NoOperator
  /\ Len(Before.current) = 2
  /\ Before.current[1] # Before.current[2]
  /\ current = <<Before.current[1]>>

\* an operator has been pressed where it evaluates the pending operation
Collapsed ==
  /\ Pressed("operator")
  /\ Before.operator # NoOperator
  /\ Before.previous # NoPrevious
  /\ ~Before.overwrite

\* C13 as stated: whenever an operator evaluates the pending operation, a digit
\* or a decimal point has been pressed since the operator before it.
C13_CollapseAfterTyping == Collapsed => last.typed

\* C13 amended: whenever an operator evaluates the pending operation, a digit, a
\* decimal point or delete has been pressed since the operator before it.
C13_CollapseAfterEditing == Collapsed => last.edited

\* an operator has evaluated 2 + 0, the 0 being left by delete and nothing typed
C13_Witness ==
  /\ Collapsed
  /\ last.edited
  /\ ~last.typed
  /\ Before.previous = <<"2">>
  /\ Before.operator = "add"
  /\ Before.current = <<"0">>
  /\ previous = <<"2">>
  /\ current = <<"2">>

\* C14: an operator, in any state, leaves itself pending and overwrite set; in a
\* state that is no error state, with no operator pending or with overwrite set,
\* it evaluates nothing: current stays and previous becomes current.
C14_OperatorPends ==
  Pressed("operator") =>
    /\ operator = last.button.value
    /\ overwrite
    /\ (Before.current # Error /\ (Before.operator = NoOperator \/ Before.overwrite)) =>
         (current = Before.current /\ previous = Before.current)

\* 2 + x: an operator has been pressed right behind another one
C14_Witness ==
  /\ Pressed("operator")
  /\ Before.current = <<"2">>
  /\ Before.previous = <<"2">>
  /\ Before.operator = "add"
  /\ Before.overwrite
  /\ State = [current |-> <<"2">>, previous |-> <<"2">>, operator |-> "mul", overwrite |-> TRUE]

\* C15: a digit d in a state that is no error state: with overwrite set or
\* current = "0", current becomes d, otherwise current followed by d, unless that
\* is longer than MAX_LENGTH and the digit is rejected; an accepted digit leaves
\* overwrite false; previous and operator stay as they were.
C15_DigitTypes ==
  (Pressed("digit") /\ Before.current # Error) =>
    /\ previous = Before.previous
    /\ operator = Before.operator
    /\ (Before.overwrite \/ Before.current = <<"0">>) =>
         (current = <<last.button.value>> /\ ~overwrite)
    /\ (~Before.overwrite /\ Before.current # <<"0">>) =>
         IF Length(Before.current) + 1 > MAX_LENGTH THEN State = Before
         ELSE current = Before.current \o <<last.button.value>> /\ ~overwrite

\* a digit has been appended to a second operand, an operator pending
C15_Witness ==
  /\ Pressed("digit")
  /\ Before.operator # NoOperator
  /\ Before.previous # NoPrevious
  /\ ~Before.overwrite
  /\ Len(Before.current) >= 2
  /\ Len(current) = Len(Before.current) + 1
  /\ operator = Before.operator

\* C16: the decimal point in a state that is no error state and whose current has
\* a decimal point changes none of the four cells, overwrite set or not; with no
\* decimal point in current and overwrite set it leaves current = "0." and
\* overwrite false, and it replaces current by "0." or clears overwrite in no
\* other state.
C16_DecimalOnce ==
  Pressed("decimal") =>
    /\ (Before.current # Error /\ Points(Before.current) > 0) => State = Before
    /\ (Points(Before.current) = 0 /\ Before.overwrite) =>
         (current = <<"0", ".">> /\ ~overwrite)
    /\ (overwrite # Before.overwrite \/ current \notin {Before.current, Before.current \o <<".">>})
         => (Points(Before.current) = 0 /\ Before.overwrite)

\* 3 / 2 = and the decimal point: it has been pressed on the result 1.5
C16_Witness ==
  /\ Pressed("decimal")
  /\ Before = [current |-> <<"1", ".", "5">>, previous |-> NoPrevious,
                operator |-> NoOperator, overwrite |-> TRUE]
  /\ State = Before

\* C17: equal in a state that is no error state and has no operator pending
\* changes none of the four cells.
C17_EqualAlone ==
  (Pressed("equal") /\ Before.current # Error /\ Before.operator = NoOperator) => State = Before

\* 2 + 3 = =: equal has been pressed a second time, on the result
C17_Witness ==
  /\ Pressed("equal")
  /\ Before = [current |-> <<"5">>, previous |-> NoPrevious,
                operator |-> NoOperator, overwrite |-> TRUE]
  /\ State = Before

\* C18: in every reachable state current = "Error" implies that overwrite is set,
\* so that a digit or a decimal point pressed in an error state replaces the
\* sentinel and is not appended to it.
C18_ErrorOverwrites ==
  /\ current = Error => overwrite
  /\ (Before.current = Error /\ Pressed("digit")) => current = <<last.button.value>>
  /\ (Before.current = Error /\ Pressed("decimal")) => current = <<"0", ".">>

\* a digit has been pressed in an error state that an operator left, with the
\* sentinel in previous as well
C18_Witness ==
  /\ Pressed("digit")
  /\ Before.current = Error
  /\ Before.previous = Error
  /\ Before.overwrite
  /\ current = <<"2">>

\* C19: in every reachable state current is a string that is not empty, so that
\* the display shows current itself unless current is the error sentinel.
C19_CurrentNotEmpty ==
  /\ Len(current) >= 1
  /\ current # Error => displayValue = current

\* delete has been pressed on an operand of one character that is not "0"
C19_Witness ==
  /\ Pressed("delete")
  /\ ~Before.overwrite
  /\ Len(Before.current) = 1
  /\ Before.current # initialCurrent
  /\ current = initialCurrent

\* C20: trimTrailingZeros is idempotent on the strings of digits with at most one
\* decimal point: applied to a string it has returned, it returns that string.
C20_TrimIdempotent ==
  /\ clicks >= 1 => trimTrailingZeros(current) = current
  /\ clicks >= 2 => current = Before.current

\* 5.500 has been trimmed to 5.5
C20_Witness ==
  /\ clicks = 1
  /\ Before.current = <<"5", ".", "5", "0", "0">>
  /\ current = <<"5", ".", "5">>

====
